---------------------------- MODULE Spec2Model ----------------------------
(***************************************************************************)
(* A model of the eVTOL simulation: the fixed-timestep timer               *)
(* (sim_timer.h), the vehicle state machine (evtol.h), the charging        *)
(* station (charge_station.h) and the driver that composes them            *)
(* (evtol_simulation.h).                                                   *)
(*                                                                         *)
(* Numbers.  The program's doubles are modelled as exact rationals         *)
(* [n, d] in lowest terms (floating-point rounding is not modelled).  The  *)
(* program's integers (size_t, chrono microseconds) are integers; the      *)
(* inputs are chosen so that no value leaves the 32-bit range.             *)
(*                                                                         *)
(* The program's doubles include NaN, which only the arguments of a        *)
(* constructor take here.                                                  *)
(*                                                                         *)
(* Four specifications share the variables:                                *)
(*   Spec        eVTOLSimulation::run(): vehicles are created, then the    *)
(*               timer polls the wall clock and fires the tick callback;   *)
(*               run() may be called again afterwards.                     *)
(*   TestSpec    a client that drives one ChargingStation with the mock    *)
(*               devices of test_ChargingStation, in any order of          *)
(*               addDevice and timestepUpdate calls.                       *)
(*   CtorSpec    a client that calls a validating constructor              *)
(*               (SimulationEventTimer, eVTOLConfiguration).               *)
(*   ClientSpec  a client of eVTOLFactory and eVTOL that creates vehicles  *)
(*               and calls begin, timestepUpdate and addCharge on them.    *)
(***************************************************************************)
EXTENDS Integers, Sequences, FiniteSets, TLC

VARIABLES
    pc,                           \* position of the driver / the timer loop
    evtols_,                      \* eVTOLSimulation::evtols_ (the vehicles themselves)
    max_number_charging_devices_, \* ChargingStation
    devices_charging_,            \* ChargingStation, a vector: index 1 is the oldest entry
    devices_waiting_,             \* ChargingStation, a deque: index 1 is the front
    mock_total_charge,            \* MockChargeableDevice::total_charge of each mock device
    timestep_size_milliseconds_,  \* SimulationEventTimer
    total_simulation_time_minutes_,
    simulation_to_real_time_,
    current_time,                 \* locals of SimulationEventTimer::start (microseconds)
    next_update_time,
    stop_time,
    update_interval,
    update_count,
    prev_time,                    \* arguments of the callback being (or last) executed
    cur_time,
    agent_idx,                    \* position of the for_each over evtols_ in the callback
    add_count,                    \* history: number of addDevice calls so far
    add_order,                    \* history: device -> number of its latest addDevice call
    tick_log,                     \* history: agents updated so far in the current callback
    test_log,                     \* history: the calls the test client has made
    call,                         \* the constructor call a client made last, with its arguments
    outcome,                      \* what that call did: the exception thrown, the object constructed
    has_already_run_,             \* eVTOLSimulation
    prototypes_,                  \* eVTOLFactory, a vector: the prototype vehicles
    admission                     \* history: vehicle -> how its latest addDevice call found it and the station

vars == <<pc, evtols_, max_number_charging_devices_, devices_charging_,
          devices_waiting_, mock_total_charge, timestep_size_milliseconds_,
          total_simulation_time_minutes_, simulation_to_real_time_,
          current_time, next_update_time, stop_time, update_interval,
          update_count, prev_time, cur_time, agent_idx, add_count, add_order,
          tick_log, test_log,
          call, outcome,
          has_already_run_,
          prototypes_,
          admission>>

stationVars == <<max_number_charging_devices_, devices_charging_, devices_waiting_>>
timerConfigVars == <<timestep_size_milliseconds_, total_simulation_time_minutes_,
                     simulation_to_real_time_>>
timerLocalVars == <<current_time, next_update_time, stop_time, update_interval,
                    update_count>>

----------------------------------------------------------------------------
(* Calls that may throw: what a call did is the exception it threw ("none" *)
(* when it returned) and the object it constructed or returned, if any.    *)

NoCall == [op |-> "none"]
NoOutcome == [thrown |-> "none", object |-> <<>>]
Throw(exception) == [thrown |-> exception, object |-> <<>>]
Return(obj) == [thrown |-> "none", object |-> <<obj>>]

----------------------------------------------------------------------------
(* Bounds of the model *)

NumEvtols == 3          \* vehicles created by run() (TOTAL_NUMBER_EVTOLS, scaled down)
MaxBays == 2            \* the bay capacity is drawn from 0..MaxBays
MaxTestTicks == 5       \* timestepUpdate calls the test client makes

----------------------------------------------------------------------------
(* Exact rationals for the program's doubles *)

Abs(x) == IF x < 0 THEN -x ELSE x

RECURSIVE GCD(_, _)
GCD(a, b) == IF b = 0 THEN a ELSE GCD(b, a % b)

\* n/d in lowest terms with a positive denominator (d # 0)
Rat(n, d) ==
    LET s == IF d < 0 THEN -1 ELSE 1
        g == GCD(Abs(n), Abs(d))
    IN  [n |-> (s * n) \div g, d |-> (s * d) \div g]

RInt(k) == [n |-> k, d |-> 1]
RAdd(x, y) == Rat(x.n * y.d + y.n * x.d, x.d * y.d)
RSub(x, y) == Rat(x.n * y.d - y.n * x.d, x.d * y.d)
\* cross-cancelled first, so that the intermediate products stay small
RMul(x, y) ==
    LET a == Rat(x.n, y.d)
        b == Rat(y.n, x.d)
    IN  Rat(a.n * b.n, a.d * b.d)
RDiv(x, y) == RMul(x, Rat(y.d, y.n))
\* the double that is not a number: the only value with denominator 0
NaN == [n |-> 0, d |-> 0]
RLess(x, y) == x.d # 0 /\ y.d # 0 /\ x.n * y.d < y.n * x.d
\* a comparison with NaN is false
RLeq(x, y) == x.d # 0 /\ y.d # 0 /\ x.n * y.d <= y.n * x.d
RMin(x, y) == IF RLess(y, x) THEN y ELSE x


----------------------------------------------------------------------------
(* eVTOLConfiguration (evtol.h) *)

MsPerHour == 60 * 60 * 1000

\* the 7-argument constructor, for arguments that pass its validation
eVTOLConfiguration(name, speed, capacity, charge_time, energy_use, passengers, prob_fault) ==
    [company_name_ |-> name,
     cruise_speed_ |-> speed,
     battery_capacity_ |-> capacity,
     time_to_charge_ |-> charge_time,
     energy_use_at_cruise_ |-> energy_use,
     passenger_count_ |-> passengers,
     prob_fault_per_hour_ |-> prob_fault]

\* rate of charge in kWh / ms
ConfigChargeRate(c) ==
    RDiv(c.battery_capacity_, RMul(c.time_to_charge_, RInt(MsPerHour)))

\* rate of energy consumption in kWh / ms at cruise speed
ConfigEnergyUsePerMillisecond(c) ==
    RDiv(RMul(c.energy_use_at_cruise_, c.cruise_speed_), RInt(MsPerHour))

\* The prototypes of the model: valid configurations, scaled so that a vehicle
\* runs through whole flight / wait / charge cycles within a few ticks.
alpha_config == eVTOLConfiguration("Alpha", RInt(200), RInt(1), Rat(1, 300), RInt(1), 4, RInt(0))
beta_config == eVTOLConfiguration("Beta", RInt(240), RInt(2), Rat(1, 200), RInt(2), 5, Rat(1, 4))

Prototypes == <<alpha_config, beta_config>>

----------------------------------------------------------------------------
(* eVTOL (evtol.h) *)

\* eVTOL::eVTOL(config, charging_station); has_station is charging_station != nullptr
NeweVTOL(config, has_station) ==
    [configuration_ |-> config,
     charging_station_ |-> has_station,
     total_flight_time_ |-> 0,
     total_charge_time_ |-> 0,
     total_wait_time_ |-> 0,
     number_of_faults_ |-> 0,
     current_charge_ |-> config.battery_capacity_,
     state_ |-> "UNKNOWN"]

\* eVTOL::begin
Begin(ev) == [ev EXCEPT !.state_ = "FLYING"]

hasFullCharge(ev) == ev.current_charge_ = ev.configuration_.battery_capacity_

\* amount of charge remaining as a percent of max charge
percentChargeRemaining(ev) ==
    RMul(RDiv(ev.current_charge_, ev.configuration_.battery_capacity_), RInt(100))

chargeRate(ev) == ConfigChargeRate(ev.configuration_)

energyUsePerMillisecond(ev) == ConfigEnergyUsePerMillisecond(ev.configuration_)

\* Mutant: the threshold read as half of the capacity (50 percent)
LowOnCharge_HalfCapacity(ev) == RLess(percentChargeRemaining(ev), RInt(50))

\* The vehicle is low on charge and plugs into the charging station
LowOnCharge(ev) == RLess(percentChargeRemaining(ev), Rat(1, 2))

\* Mutant: a fault may occur whatever the probability is
didFaultOccur_AnyProbability(ev, interval_milliseconds) == {FALSE, TRUE}

\* eVTOL::didFaultOccur: the outcomes the uniform draw from [0, 1) allows
didFaultOccur(ev, interval_milliseconds) ==
    LET prob_fault_per_millisecond ==
            RDiv(ev.configuration_.prob_fault_per_hour_, RInt(MsPerHour))
        prob_fault_during_interval ==
            RMul(prob_fault_per_millisecond, RInt(interval_milliseconds))
    IN  IF RLeq(prob_fault_during_interval, RInt(0)) THEN {FALSE}
        ELSE IF RLeq(RInt(1), prob_fault_during_interval) THEN {TRUE}
        ELSE {FALSE, TRUE}

\* Mutant: addCharge leaves a vehicle with a full battery in CHARGING
addCharge_AlwaysCharging(ev, charge) ==
    LET added == RMin(RAdd(ev.current_charge_, charge),
                      ev.configuration_.battery_capacity_)
    IN  [ev EXCEPT !.current_charge_ = added, !.state_ = "CHARGING"]

\* Mutant: addCharge without the cap at the battery capacity
addCharge_NoCap(ev, charge) ==
    LET e1 == [ev EXCEPT !.current_charge_ = RAdd(ev.current_charge_, charge)]
    IN  [e1 EXCEPT !.state_ = IF hasFullCharge(e1) THEN "FLYING" ELSE "CHARGING"]

\* eVTOL::addCharge
addCharge(ev, charge) ==
    LET added == RMin(RAdd(ev.current_charge_, charge),
                      ev.configuration_.battery_capacity_)
        e1 == [ev EXCEPT !.current_charge_ = added]
    IN  [e1 EXCEPT !.state_ = IF hasFullCharge(e1) THEN "FLYING" ELSE "CHARGING"]

\* Mutant: a vehicle that has waited one tick takes off again
timestepUpdate_WaitingTakesOff(ev, prev, cur, fault) ==
    IF ev.state_ = "FLYING" THEN
        LET e1 == [ev EXCEPT
                      !.total_flight_time_ = @ + (cur - prev),
                      !.current_charge_ =
                          RSub(@, RMul(energyUsePerMillisecond(ev), RInt(cur - prev))),
                      !.number_of_faults_ = @ + (IF fault THEN 1 ELSE 0)]
        IN  IF LowOnCharge(e1) THEN [e1 EXCEPT !.state_ = "WAITING"] ELSE e1
    ELSE IF ev.state_ = "WAITING" THEN
        [ev EXCEPT !.total_wait_time_ = @ + (cur - prev), !.state_ = "FLYING"]
    ELSE IF ev.state_ = "CHARGING" THEN
        LET e1 == [ev EXCEPT !.total_charge_time_ = @ + (cur - prev)]
        IN  IF hasFullCharge(e1) THEN [e1 EXCEPT !.state_ = "FLYING"] ELSE e1
    ELSE ev

\* Mutant: a tick spent waiting is counted as charge time
timestepUpdate_WaitingCountsAsCharge(ev, prev, cur, fault) ==
    IF ev.state_ = "FLYING" THEN
        LET e1 == [ev EXCEPT
                      !.total_flight_time_ = @ + (cur - prev),
                      !.current_charge_ =
                          RSub(@, RMul(energyUsePerMillisecond(ev), RInt(cur - prev))),
                      !.number_of_faults_ = @ + (IF fault THEN 1 ELSE 0)]
        IN  IF LowOnCharge(e1) THEN [e1 EXCEPT !.state_ = "WAITING"] ELSE e1
    ELSE IF ev.state_ = "WAITING" THEN
        [ev EXCEPT !.total_charge_time_ = @ + (cur - prev)]
    ELSE IF ev.state_ = "CHARGING" THEN
        LET e1 == [ev EXCEPT !.total_charge_time_ = @ + (cur - prev)]
        IN  IF hasFullCharge(e1) THEN [e1 EXCEPT !.state_ = "FLYING"] ELSE e1
    ELSE ev

\* Mutant: a charging vehicle takes off without the test for a full charge
timestepUpdate_ChargingTakesOff(ev, prev, cur, fault) ==
    IF ev.state_ = "FLYING" THEN
        LET e1 == [ev EXCEPT
                      !.total_flight_time_ = @ + (cur - prev),
                      !.current_charge_ =
                          RSub(@, RMul(energyUsePerMillisecond(ev), RInt(cur - prev))),
                      !.number_of_faults_ = @ + (IF fault THEN 1 ELSE 0)]
        IN  IF LowOnCharge(e1) THEN [e1 EXCEPT !.state_ = "WAITING"] ELSE e1
    ELSE IF ev.state_ = "WAITING" THEN
        [ev EXCEPT !.total_wait_time_ = @ + (cur - prev)]
    ELSE IF ev.state_ = "CHARGING" THEN
        [ev EXCEPT !.total_charge_time_ = @ + (cur - prev), !.state_ = "FLYING"]
    ELSE ev

\* Mutant: a vehicle low on charge goes to CHARGING at once
timestepUpdate_LowToCharging(ev, prev, cur, fault) ==
    IF ev.state_ = "FLYING" THEN
        LET e1 == [ev EXCEPT
                      !.total_flight_time_ = @ + (cur - prev),
                      !.current_charge_ =
                          RSub(@, RMul(energyUsePerMillisecond(ev), RInt(cur - prev))),
                      !.number_of_faults_ = @ + (IF fault THEN 1 ELSE 0)]
        IN  IF LowOnCharge(e1) THEN [e1 EXCEPT !.state_ = "CHARGING"] ELSE e1
    ELSE IF ev.state_ = "WAITING" THEN
        [ev EXCEPT !.total_wait_time_ = @ + (cur - prev)]
    ELSE IF ev.state_ = "CHARGING" THEN
        LET e1 == [ev EXCEPT !.total_charge_time_ = @ + (cur - prev)]
        IN  IF hasFullCharge(e1) THEN [e1 EXCEPT !.state_ = "FLYING"] ELSE e1
    ELSE ev

\* eVTOL::timestepUpdate without the call on the station: the vehicle after the
\* update.  fault is the outcome of didFaultOccur.  A vehicle in state UNKNOWN
\* throws and is left as it was.
timestepUpdate(ev, prev, cur, fault) ==
    IF ev.state_ = "FLYING" THEN
        LET e1 == [ev EXCEPT
                      !.total_flight_time_ = @ + (cur - prev),
                      !.current_charge_ =
                          RSub(@, RMul(energyUsePerMillisecond(ev), RInt(cur - prev))),
                      !.number_of_faults_ = @ + (IF fault THEN 1 ELSE 0)]
        IN  IF LowOnCharge(e1) THEN [e1 EXCEPT !.state_ = "WAITING"] ELSE e1
    ELSE IF ev.state_ = "WAITING" THEN
        [ev EXCEPT !.total_wait_time_ = @ + (cur - prev)]
    ELSE IF ev.state_ = "CHARGING" THEN
        LET e1 == [ev EXCEPT !.total_charge_time_ = @ + (cur - prev)]
        IN  IF hasFullCharge(e1) THEN [e1 EXCEPT !.state_ = "FLYING"] ELSE e1
    ELSE ev

\* Mutant: a waiting vehicle asks for admission again on every tick
RequestsAdmission_EveryWaitingTick(ev, after) ==
    /\ after.state_ = "WAITING"
    /\ ev.charging_station_

\* Whether timestepUpdate calls charging_station_->addDevice(this)
RequestsAdmission(ev, after) ==
    /\ ev.state_ = "FLYING"
    /\ after.state_ = "WAITING"
    /\ ev.charging_station_

\* Mutant: timestepUpdate without the final else branch
Throws_Never(ev) == FALSE

\* Whether timestepUpdate throws std::logic_error
Throws(ev) == ev.state_ \notin {"FLYING", "WAITING", "CHARGING"}

----------------------------------------------------------------------------
(* ChargeableDevice: the vehicles and the mock devices of test_ChargingStation *)

Vehicles == 1..NumEvtols            \* a vehicle is named by its index in evtols_
MockDevices == 101..104             \* dev1 .. dev4
Devices == Vehicles \cup MockDevices

MockFullCharge == 3                 \* MockChargeableDevice::hasFullCharge
MockChargeRate == 1                 \* MockChargeableDevice::chargeRate

\* devs = [ev |-> the vehicles, mock |-> the mock devices' total_charge];
\* the three operations dispatch on the dynamic type of the device.
DevChargeRate(devs, d) ==
    IF d \in MockDevices THEN RInt(MockChargeRate) ELSE chargeRate(devs.ev[d])

DevHasFullCharge(devs, d) ==
    IF d \in MockDevices THEN RLeq(RInt(MockFullCharge), devs.mock[d])
    ELSE hasFullCharge(devs.ev[d])

DevAddCharge(devs, d, charge) ==
    IF d \in MockDevices THEN [devs EXCEPT !.mock[d] = RAdd(@, charge)]
    ELSE [devs EXCEPT !.ev[d] = addCharge(@, charge)]

----------------------------------------------------------------------------
(* ChargingStation (charge_station.h) *)

\* Mutant: only the first device of the list is charged
ChargeDevices_OnlyFirst(devs, list, dt) ==
    IF list = <<>> THEN devs
    ELSE DevAddCharge(devs, Head(list),
                      RMul(DevChargeRate(devs, Head(list)), RInt(dt)))

\* update each device currently charging, in list order
RECURSIVE ChargeDevices(_, _, _)
ChargeDevices(devs, list, dt) ==
    IF list = <<>> THEN devs
    ELSE LET d == Head(list)
         IN  ChargeDevices(
                 DevAddCharge(devs, d, RMul(DevChargeRate(devs, d), RInt(dt))),
                 Tail(list), dt)

\* Mutant: devices with a full charge are left in the list
RemoveFullDevices_KeepsAll(devs, list) == list

\* Mutant: find_if / erase is done once, not until no full device is left
RemoveFullDevices_OnlyFirst(devs, list) ==
    LET full == {i \in DOMAIN list : DevHasFullCharge(devs, list[i])}
    IN  IF full = {} THEN list
        ELSE LET first == CHOOSE i \in full : \A j \in full : i <= j
             IN  SubSeq(list, 1, first - 1) \o SubSeq(list, first + 1, Len(list))

\* find_if / erase until no device with a full charge is left in the list
RemoveFullDevices(devs, list) ==
    SelectSeq(list, LAMBDA d : ~DevHasFullCharge(devs, d))

\* Mutant: timestepUpdate without the admission loop
AdmitWaiting_None(charging, waiting, max) == [charging |-> charging, waiting |-> waiting]

\* Mutant: the admission loop runs while size() <= the bay capacity
RECURSIVE AdmitWaiting_OneMore(_, _, _)
AdmitWaiting_OneMore(charging, waiting, max) ==
    IF Len(charging) <= max /\ Len(waiting) > 0
    THEN AdmitWaiting_OneMore(Append(charging, waiting[Len(waiting)]),
                              SubSeq(waiting, 1, Len(waiting) - 1), max)
    ELSE [charging |-> charging, waiting |-> waiting]

\* Mutant: the next device is popped from the front of the waiting queue
RECURSIVE AdmitWaiting_PopFront(_, _, _)
AdmitWaiting_PopFront(charging, waiting, max) ==
    IF Len(charging) < max /\ Len(waiting) > 0
    THEN AdmitWaiting_PopFront(Append(charging, Head(waiting)), Tail(waiting), max)
    ELSE [charging |-> charging, waiting |-> waiting]

\* while a bay is free and a device waits, pop the back of the waiting queue
\* and append it to the charging list
RECURSIVE AdmitWaiting(_, _, _)
AdmitWaiting(charging, waiting, max) ==
    IF Len(charging) < max /\ Len(waiting) > 0
    THEN AdmitWaiting(Append(charging, waiting[Len(waiting)]),
                      SubSeq(waiting, 1, Len(waiting) - 1), max)
    ELSE [charging |-> charging, waiting |-> waiting]

\* Mutant: devices are admitted from the queue before the charging loop
StationTimestepUpdate_AdmitFirst(devs, charging, waiting, max, prev, cur) ==
    LET admitted == AdmitWaiting(charging, waiting, max)
        charged == ChargeDevices(devs, admitted.charging, cur - prev)
        left == RemoveFullDevices(charged, admitted.charging)
    IN  [devs |-> charged, charging |-> left, waiting |-> admitted.waiting]

\* ChargingStation::timestepUpdate
StationTimestepUpdate(devs, charging, waiting, max, prev, cur) ==
    LET charged == ChargeDevices(devs, charging, cur - prev)
        left == RemoveFullDevices(charged, charging)
        admitted == AdmitWaiting(left, waiting, max)
    IN  [devs |-> charged, charging |-> admitted.charging, waiting |-> admitted.waiting]

\* Mutant: a device that takes a bay is put on the waiting queue as well
addDevice_BothLists(charging, waiting, max, d) ==
    IF Len(charging) < max
    THEN [charging |-> Append(charging, d), waiting |-> <<d>> \o waiting]
    ELSE [charging |-> charging, waiting |-> <<d>> \o waiting]

\* Mutant: the device takes a bay without the check for a free one
addDevice_NoCapacityCheck(charging, waiting, max, d) ==
    [charging |-> Append(charging, d), waiting |-> waiting]

\* Mutant: a new device enters the waiting queue at the back
addDevice_PushBack(charging, waiting, max, d) ==
    IF Len(charging) < max
    THEN [charging |-> Append(charging, d), waiting |-> waiting]
    ELSE [charging |-> charging, waiting |-> Append(waiting, d)]

\* ChargingStation::addDevice
addDevice(charging, waiting, max, d) ==
    IF Len(charging) < max
    THEN [charging |-> Append(charging, d), waiting |-> waiting]
    ELSE [charging |-> charging, waiting |-> <<d>> \o waiting]

----------------------------------------------------------------------------
(* eVTOLFactory (evtol_factory.h) *)

\* eVTOL's copy constructor: every field but the random engine is copied
CopyeVTOL(source_evtol) ==
    [configuration_ |-> source_evtol.configuration_,
     charging_station_ |-> source_evtol.charging_station_,
     total_flight_time_ |-> source_evtol.total_flight_time_,
     total_charge_time_ |-> source_evtol.total_charge_time_,
     total_wait_time_ |-> source_evtol.total_wait_time_,
     number_of_faults_ |-> source_evtol.number_of_faults_,
     current_charge_ |-> source_evtol.current_charge_,
     state_ |-> source_evtol.state_]

\* eVTOLFactory::addPrototype: the argument is passed by value and stored
addPrototype(prototypes, evtol) == Append(prototypes, CopyeVTOL(evtol))

\* the factory run() builds: one prototype per configuration, all pointing
\* at the station
RunPrototypes == [i \in DOMAIN Prototypes |-> CopyeVTOL(NeweVTOL(Prototypes[i], TRUE))]

\* create_eVTOL with the random index drawn, on a factory with prototypes
create_eVTOL(index) == CopyeVTOL(prototypes_[index])

----------------------------------------------------------------------------
(* The timer configurations run() is checked with: <<tick size in ms, total  *)
(* minutes, compression>>.  TIMESTEP_IN_MILLISECONDS etc. are compiled-in;   *)
(* every configuration here is accepted by the constructor and has a         *)
(* positive update interval.                                                 *)

TimerConfigs == {<<6000, 1, 1>>, <<20000, 1, 7>>, <<1000, 0, 1>>}

SetToZero(S) == [d \in S |-> 0]

\* the history of a vehicle that has not called addDevice
NoAdmission == [direct |-> FALSE, tick |-> 0, wait |-> 0, charge_time |-> 0, charges |-> 0]

\* History of the addDevice call a vehicle makes in its tick update: whether
\* a bay was free (the vehicle entered the charging list directly), the number
\* of the tick, the vehicle's wait time and charge time at that moment, and
\* the number of times the station has charged it since (none yet).
Admitted(ev, charging, max, count) ==
    [direct |-> Len(charging) < max, tick |-> count, wait |-> ev.total_wait_time_,
     charge_time |-> ev.total_charge_time_, charges |-> 0]

\* History of the charge loop: every vehicle in the charging list has been
\* charged once more
Delivered(adm, charging) ==
    [v \in DOMAIN adm |->
        IF \E i \in DOMAIN charging : charging[i] = v
        THEN [adm[v] EXCEPT !.charges = @ + 1] ELSE adm[v]]

Init ==
    /\ pc = "constructed"
    /\ evtols_ = <<>>
    /\ max_number_charging_devices_ \in 0..MaxBays
    /\ devices_charging_ = <<>>
    /\ devices_waiting_ = <<>>
    /\ mock_total_charge = [d \in MockDevices |-> RInt(0)]
    /\ \E c \in TimerConfigs :
          /\ timestep_size_milliseconds_ = c[1]
          /\ total_simulation_time_minutes_ = c[2]
          /\ simulation_to_real_time_ = c[3]
    /\ current_time = 0
    /\ next_update_time = 0
    /\ stop_time = 0
    /\ update_interval = 0
    /\ update_count = 0
    /\ prev_time = 0
    /\ cur_time = 0
    /\ agent_idx = 0
    /\ add_count = 0
    /\ add_order = SetToZero(Devices)
    /\ tick_log = <<>>
    /\ test_log = <<>>
    /\ call = NoCall
    /\ outcome = NoOutcome
    /\ has_already_run_ = FALSE
    /\ prototypes_ = <<>>
    /\ admission = [v \in Vehicles |-> NoAdmission]

----------------------------------------------------------------------------
(* eVTOLSimulation::run (evtol_simulation.h) *)

\* Mutant: run() without the test of has_already_run_
RunRejected_Never(already_run) == FALSE

\* the test at the entry of run()
RunRejected(already_run) == already_run

\* A call of run() on the instance, where control is with the caller: on the
\* fresh instance, and again after run() has returned or has been left by an
\* exception.  It throws logic_error, or sets has_already_run_, creates the
\* station (no device in it) and the factory with its prototypes, and goes
\* on to create the vehicles.
Run ==
    /\ pc \in {"constructed", "done", "aborted"}
    /\ call' = [op |-> "run"]
    /\ IF RunRejected(has_already_run_)
       THEN /\ outcome' = Throw("logic_error")
            /\ UNCHANGED <<pc, has_already_run_, devices_charging_, devices_waiting_,
                           prototypes_>>
       ELSE /\ outcome' = NoOutcome
            /\ has_already_run_' = TRUE
            /\ devices_charging_' = <<>>
            /\ devices_waiting_' = <<>>
            /\ prototypes_' = RunPrototypes
            /\ pc' = "create"
    /\ UNCHANGED <<evtols_, max_number_charging_devices_, mock_total_charge,
                   timerConfigVars, timerLocalVars, prev_time, cur_time,
                   agent_idx, add_count, add_order, tick_log, test_log>>
    /\ UNCHANGED <<admission>>

\* one round of the loop that populates evtols_
CreateVehicle ==
    /\ pc = "create"
    /\ \E index \in DOMAIN Prototypes :
          evtols_' = Append(evtols_, Begin(create_eVTOL(index)))
    /\ pc' = IF Len(evtols_) + 1 = NumEvtols THEN "start" ELSE "create"
    /\ UNCHANGED <<stationVars, mock_total_charge, timerConfigVars, timerLocalVars,
                   prev_time, cur_time, agent_idx, add_count, add_order,
                   tick_log, test_log>>
    /\ UNCHANGED <<call, outcome, has_already_run_, prototypes_, admission>>

\* The agent the for_each of timestep_handler visits at position i
AgentAt(i) == i

\* Mutant: the iteration skips every other vehicle
NextAgent_SkipsOne(i) == i + 2

\* The position the for_each visits after position i
NextAgent(i) == i + 1

\* timestep_handler, one vehicle: evtol->timestepUpdate(prev_time, cur_time)
VehicleUpdate ==
    /\ pc = "vehicles"
    /\ LET v == AgentAt(agent_idx)
           ev == evtols_[v]
       IN  IF Throws(ev)
           THEN /\ pc' = "aborted"
                /\ UNCHANGED <<evtols_, devices_charging_, devices_waiting_,
                               add_count, add_order, admission, agent_idx, tick_log>>
           ELSE \E fault \in didFaultOccur(ev, cur_time - prev_time) :
                  LET after == timestepUpdate(ev, prev_time, cur_time, fault)
                      st == addDevice(devices_charging_, devices_waiting_,
                                      max_number_charging_devices_, v)
                  IN  /\ evtols_' = [evtols_ EXCEPT ![v] = after]
                      /\ IF RequestsAdmission(ev, after)
                         THEN /\ devices_charging_' = st.charging
                              /\ devices_waiting_' = st.waiting
                              /\ add_count' = add_count + 1
                              /\ add_order' = [add_order EXCEPT ![v] = add_count + 1]
                              /\ admission' = [admission EXCEPT ![v] =
                                     Admitted(after, devices_charging_,
                                              max_number_charging_devices_, update_count)]
                         ELSE UNCHANGED <<devices_charging_, devices_waiting_,
                                          add_count, add_order, admission>>
                      /\ tick_log' = Append(tick_log, v)
                      /\ agent_idx' = NextAgent(agent_idx)
                      /\ pc' = IF NextAgent(agent_idx) > Len(evtols_)
                               THEN "station" ELSE "vehicles"
    /\ UNCHANGED <<max_number_charging_devices_, mock_total_charge, timerConfigVars,
                   timerLocalVars, prev_time, cur_time, test_log>>
    /\ UNCHANGED <<call, outcome, has_already_run_, prototypes_>>

\* timestep_handler, after the for_each: charging_station_->timestepUpdate, and
\* back in SimulationEventTimer::start: next_update_time += update_interval
StationUpdate ==
    /\ pc = "station"
    /\ LET r == StationTimestepUpdate([ev |-> evtols_, mock |-> mock_total_charge],
                                      devices_charging_, devices_waiting_,
                                      max_number_charging_devices_, prev_time, cur_time)
       IN  /\ evtols_' = r.devs.ev
           /\ mock_total_charge' = r.devs.mock
           /\ devices_charging_' = r.charging
           /\ devices_waiting_' = r.waiting
    /\ tick_log' = Append(tick_log, 0)
    /\ next_update_time' = next_update_time + update_interval
    /\ pc' = "clock"
    /\ UNCHANGED <<max_number_charging_devices_, timerConfigVars, current_time,
                   stop_time, update_interval, update_count, prev_time, cur_time,
                   agent_idx, add_count, add_order, test_log>>
    /\ admission' = Delivered(admission, devices_charging_)
    /\ UNCHANGED <<call, outcome, has_already_run_, prototypes_>>

----------------------------------------------------------------------------
(* SimulationEventTimer::start (sim_timer.h).  Times are in microseconds;  *)
(* the wall clock is measured from the moment start() first reads it.      *)

MicrosPerSecond == 1000 * 1000

\* Mutant: every callback is told that the previous time was 0
PrevSimulationTime_Zero(count, timestep) == 0

\* the arguments of the callback fired when update_count callbacks went before
PrevSimulationTime(count, timestep) == count * timestep
\* Mutant: the current time computed from the count before its increment
CurSimulationTime_BeforeIncrement(count, timestep) == count * timestep

CurSimulationTime(count, timestep) == (count + 1) * timestep

\* the statements of start() before the loop
TimerStart ==
    /\ pc = "start"
    /\ current_time' = 0
    /\ next_update_time' = 0
    /\ stop_time' = 0 + ((total_simulation_time_minutes_ * 60) * MicrosPerSecond)
                            \div simulation_to_real_time_
    /\ update_interval' = (1000 * timestep_size_milliseconds_)
                              \div simulation_to_real_time_
    /\ update_count' = 0
    /\ pc' = "loop"
    /\ UNCHANGED <<evtols_, stationVars, mock_total_charge, timerConfigVars,
                   prev_time, cur_time, agent_idx, add_count, add_order,
                   tick_log, test_log>>
    /\ UNCHANGED <<call, outcome, has_already_run_, prototypes_, admission>>

\* a round of the loop that fires the callback: timestep_event_(prev, cur)
TimerFire ==
    /\ pc = "loop"
    /\ current_time < stop_time
    /\ current_time >= next_update_time
    /\ prev_time' = PrevSimulationTime(update_count, timestep_size_milliseconds_)
    /\ cur_time' = CurSimulationTime(update_count, timestep_size_milliseconds_)
    /\ update_count' = update_count + 1
    /\ agent_idx' = 1
    /\ tick_log' = <<>>
    /\ pc' = IF Len(evtols_) = 0 THEN "station" ELSE "vehicles"
    /\ UNCHANGED <<evtols_, stationVars, mock_total_charge, timerConfigVars,
                   current_time, next_update_time, stop_time, update_interval,
                   add_count, add_order, test_log>>
    /\ UNCHANGED <<call, outcome, has_already_run_, prototypes_, admission>>

\* a round of the loop in which no update is due
TimerIdle ==
    /\ pc = "loop"
    /\ current_time < stop_time
    /\ current_time < next_update_time
    /\ pc' = "clock"
    /\ UNCHANGED <<evtols_, stationVars, mock_total_charge, timerConfigVars,
                   timerLocalVars, prev_time, cur_time, agent_idx, add_count,
                   add_order, tick_log, test_log>>
    /\ UNCHANGED <<call, outcome, has_already_run_, prototypes_, admission>>

\* What system_clock::now() may return at the end of a round: the clock does
\* not run backwards; one reading stands for each outcome of the loop's two
\* comparisons (before the next update, at or after it, before the stop time,
\* at it).
ClockReadings ==
    {t \in {current_time, next_update_time - 1, next_update_time,
            stop_time - 1, stop_time} : t >= current_time}

\* the last statement of a round: current_time = now()
ReadClock ==
    /\ pc = "clock"
    /\ current_time' \in ClockReadings
    /\ pc' = "loop"
    /\ UNCHANGED <<evtols_, stationVars, mock_total_charge, timerConfigVars,
                   next_update_time, stop_time, update_interval, update_count,
                   prev_time, cur_time, agent_idx, add_count, add_order,
                   tick_log, test_log>>
    /\ UNCHANGED <<call, outcome, has_already_run_, prototypes_, admission>>

\* the loop condition fails: start() returns
TimerStop ==
    /\ pc = "loop"
    /\ current_time >= stop_time
    /\ pc' = "done"
    /\ UNCHANGED <<evtols_, stationVars, mock_total_charge, timerConfigVars,
                   timerLocalVars, prev_time, cur_time, agent_idx, add_count,
                   add_order, tick_log, test_log>>
    /\ UNCHANGED <<call, outcome, has_already_run_, prototypes_, admission>>

Next ==
    \/ Run
    \/ CreateVehicle
    \/ TimerStart
    \/ TimerFire
    \/ VehicleUpdate
    \/ StationUpdate
    \/ TimerIdle
    \/ ReadClock
    \/ TimerStop

Spec == Init /\ [][Next]_vars

----------------------------------------------------------------------------
(* A client of one ChargingStation and the four mock devices of             *)
(* test_ChargingStation: it adds each device once, in any order, and calls  *)
(* timestepUpdate(t, t + 1) for t = 0, 1, ... in between.  test_log records *)
(* the calls: a device for addDevice, 0 for timestepUpdate.                 *)

TestInit ==
    /\ pc = "test"
    /\ evtols_ = <<>>
    /\ max_number_charging_devices_ \in 0..MaxBays
    /\ devices_charging_ = <<>>
    /\ devices_waiting_ = <<>>
    /\ mock_total_charge = [d \in MockDevices |-> RInt(0)]
    /\ timestep_size_milliseconds_ = 0
    /\ total_simulation_time_minutes_ = 0
    /\ simulation_to_real_time_ = 0
    /\ current_time = 0
    /\ next_update_time = 0
    /\ stop_time = 0
    /\ update_interval = 0
    /\ update_count = 0
    /\ prev_time = 0
    /\ cur_time = 0
    /\ agent_idx = 0
    /\ add_count = 0
    /\ add_order = SetToZero(Devices)
    /\ tick_log = <<>>
    /\ test_log = <<>>
    /\ call = NoCall
    /\ outcome = NoOutcome
    /\ has_already_run_ = FALSE
    /\ prototypes_ = <<>>
    /\ admission = [v \in Vehicles |-> NoAdmission]

\* cs.addDevice(&dev)
TestAddDevice ==
    /\ pc = "test"
    /\ \E d \in MockDevices :
          /\ add_order[d] = 0
          /\ LET st == addDevice(devices_charging_, devices_waiting_,
                                 max_number_charging_devices_, d)
             IN  /\ devices_charging_' = st.charging
                 /\ devices_waiting_' = st.waiting
          /\ add_count' = add_count + 1
          /\ add_order' = [add_order EXCEPT ![d] = add_count + 1]
          /\ test_log' = Append(test_log, d)
    /\ UNCHANGED <<pc, evtols_, max_number_charging_devices_, mock_total_charge,
                   timerConfigVars, timerLocalVars, prev_time, cur_time,
                   agent_idx, tick_log>>
    /\ UNCHANGED <<call, outcome, has_already_run_, prototypes_, admission>>

\* cs.timestepUpdate(t, t + 1)
TestTimestepUpdate ==
    /\ pc = "test"
    /\ cur_time < MaxTestTicks
    /\ LET r == StationTimestepUpdate([ev |-> evtols_, mock |-> mock_total_charge],
                                      devices_charging_, devices_waiting_,
                                      max_number_charging_devices_,
                                      cur_time, cur_time + 1)
       IN  /\ mock_total_charge' = r.devs.mock
           /\ devices_charging_' = r.charging
           /\ devices_waiting_' = r.waiting
    /\ prev_time' = cur_time
    /\ cur_time' = cur_time + 1
    /\ test_log' = Append(test_log, 0)
    /\ UNCHANGED <<pc, evtols_, max_number_charging_devices_, timerConfigVars,
                   timerLocalVars, agent_idx, add_count, add_order, tick_log>>
    /\ UNCHANGED <<call, outcome, has_already_run_, prototypes_, admission>>

TestNext ==
    \/ TestAddDevice
    \/ TestTimestepUpdate

TestSpec == TestInit /\ [][TestNext]_vars

----------------------------------------------------------------------------
(* Properties *)

Range(f) == {f[i] : i \in DOMAIN f}

\* the callback has returned and the next one has not begun
TickComplete == pc \in {"clock", "loop", "done"} /\ update_count > 0

\* C1: in every state of a simulation run the charging list holds at most as
\* many devices as the station has bays.
C1_ChargingWithinBays ==
    Len(devices_charging_) <= max_number_charging_devices_

\* C1 witness: every bay is taken and a further vehicle had to queue
C1_Witness ==
    /\ max_number_charging_devices_ = MaxBays
    /\ Len(devices_charging_) = max_number_charging_devices_
    /\ Len(devices_waiting_) > 0

\* C2: in every state of a simulation run each vehicle appears at most once in
\* the charging list and the waiting queue taken together.
C2_AtMostOnce ==
    LET both == devices_charging_ \o devices_waiting_
    IN  Cardinality(Range(both)) = Len(both)

\* C2 witness: a vehicle has come back for a second charge while another one
\* charges and it has to wait
C2_Witness ==
    /\ add_count > NumEvtols
    /\ Len(devices_charging_) > 0
    /\ Len(devices_waiting_) > 0

\* C3: after every tick the charge of every vehicle lies between 0 and its
\* battery capacity.
C3_ChargeInRange ==
    TickComplete =>
        \A v \in DOMAIN evtols_ :
            /\ RLeq(RInt(0), evtols_[v].current_charge_)
            /\ RLeq(evtols_[v].current_charge_,
                    evtols_[v].configuration_.battery_capacity_)

\* a charge below the given fraction num/den of the vehicle's battery capacity
ChargeBelow(ev, num, den) ==
    RLess(RMul(ev.current_charge_, RInt(den)),
          RMul(ev.configuration_.battery_capacity_, RInt(num)))

\* the step is the tick update of vehicle v and makes an admission request for it
AdmissionRequested(v) ==
    /\ add_count' = add_count + 1
    /\ add_order'[v] = add_count + 1
    /\ v \in Range(devices_charging_' \o devices_waiting_')

\* the tick update of a Flying vehicle: it goes Waiting and requests admission
\* exactly when its charge after the depletion is below num/den of the
\* capacity, and stays Flying without a request otherwise
FlyingUpdateThreshold(num, den) ==
    (pc = "vehicles" /\ evtols_[agent_idx].state_ = "FLYING") =>
        LET after == evtols_'[agent_idx]
        IN  IF ChargeBelow(after, num, den)
            THEN after.state_ = "WAITING" /\ AdmissionRequested(agent_idx)
            ELSE /\ after.state_ = "FLYING"
                 /\ UNCHANGED <<add_count, add_order, devices_charging_,
                                devices_waiting_>>

\* C4 as claimed: a Flying vehicle goes Waiting and requests admission exactly
\* when its charge after the tick's depletion is below half (0.5) of its
\* battery capacity.
C4_ThresholdHalfCapacity == [][FlyingUpdateThreshold(1, 2)]_vars

\* C4 as amended: a Flying vehicle goes Waiting and requests admission exactly
\* when its charge after the tick's depletion is below 0.5 percent (1/200) of
\* its battery capacity; otherwise it stays Flying.
C4_ThresholdHalfPercent == [][FlyingUpdateThreshold(1, 200)]_vars

\* C4 witness: one vehicle has just gone Waiting and sits in the station; another
\* one is still Flying after an update that left it below half of its capacity
C4_Witness ==
    /\ \E v \in DOMAIN evtols_ :
          /\ evtols_[v].state_ = "WAITING"
          /\ ChargeBelow(evtols_[v], 1, 200)
          /\ v \in Range(devices_charging_ \o devices_waiting_)
    /\ \E w \in DOMAIN evtols_ :
          /\ evtols_[w].state_ = "FLYING"
          /\ evtols_[w].total_flight_time_ > 0
          /\ ChargeBelow(evtols_[w], 1, 2)

\* d and e both wait, and d called addDevice before e
WaitsLonger(d, e) ==
    /\ d \in Range(devices_waiting_)
    /\ e \in Range(devices_waiting_)
    /\ add_order[d] < add_order[e]

\* the test client's calls so far are addDevice calls only
OnlyAdds == \A i \in DOMAIN test_log : test_log[i] # 0

\* C5: waiting devices are moved into bays in order of arrival.  With two bays
\* and four admissions A, B, C, D the charging list is A, B and the waiting
\* queue is D, C (D at the front); and of two waiting devices, when the one
\* that arrived later is moved into the charging list, the one that arrived
\* earlier is moved too or already was.
C5_ArrivalOrder ==
    /\ []((max_number_charging_devices_ = 2 /\ Len(test_log) = 4 /\ OnlyAdds) =>
            /\ devices_charging_ = <<test_log[1], test_log[2]>>
            /\ devices_waiting_ = <<test_log[4], test_log[3]>>)
    /\ [][\A d, e \in MockDevices :
            (WaitsLonger(d, e) /\ e \in Range(devices_charging_'))
                => d \in Range(devices_charging_')]_vars

\* C5 witness: dev1 charges alone for a tick, dev2 takes the second bay, dev3
\* and dev4 queue; when dev1 is full dev3 gets its bay and dev4 still waits
C5_Witness ==
    /\ max_number_charging_devices_ = 2
    /\ test_log = <<101, 0, 102, 103, 104, 0, 0>>
    /\ devices_charging_ = <<102, 103>>
    /\ devices_waiting_ = <<104>>

\* the devices this step moves from the waiting queue into the charging list
Served ==
    {d \in Range(devices_waiting_) :
        d \notin Range(devices_waiting_') /\ d \in Range(devices_charging_')}

\* C6 as claimed: the waiting queue is a stack: a vehicle moved into a bay
\* arrived more recently than every vehicle the station leaves waiting.
C6_ServedNewestFirst ==
    [][\A d \in Served : \A e \in Range(devices_waiting_) \ Served :
            add_order[d] > add_order[e]]_vars

\* C6 as amended: the waiting queue is first-in first-out: a vehicle moved into
\* a bay has waited longer than every vehicle the station leaves waiting.
C6_ServedOldestFirst ==
    [][\A d \in Served : \A e \in Range(devices_waiting_) \ Served :
            add_order[d] < add_order[e]]_vars

\* C6 witness: of two vehicles that waited, the station has moved the one that
\* arrived first into a bay and the other still waits
C6_Witness ==
    /\ TickComplete
    /\ \E d \in Range(devices_charging_), e \in Range(devices_waiting_) :
          /\ add_order[d] < add_order[e]
          /\ evtols_[d].state_ = "WAITING"
          /\ evtols_[d].total_wait_time_ > 0

\* the calls of test_ChargingStation
TestScript == <<101, 0, 102, 0, 103, 0, 104, 0, 0>>

ScenarioDone == test_log = TestScript /\ max_number_charging_devices_ = 2

\* dev1 and dev2 are full and in neither list
FirstTwoRemoved ==
    \A d \in {101, 102} :
        /\ RLeq(RInt(MockFullCharge), mock_total_charge[d])
        /\ d \notin Range(devices_charging_ \o devices_waiting_)

\* C7 as claimed: at the end of the scenario dev1 and dev2 have been removed as
\* full, dev3 is in the charging list and dev4 is still in the waiting queue.
C7_LastDeviceWaiting ==
    ScenarioDone =>
        /\ FirstTwoRemoved
        /\ 103 \in Range(devices_charging_)
        /\ 104 \in Range(devices_waiting_)

\* C7 as amended: at the end of the scenario dev1 and dev2 have been removed as
\* full, dev3 and dev4 are both in the charging list (with charge 2 and 1) and
\* the waiting queue is empty: dev4 got the bay dev2 left in tick(3, 4).
C7_LastDeviceCharging ==
    ScenarioDone =>
        /\ FirstTwoRemoved
        /\ devices_charging_ = <<103, 104>>
        /\ devices_waiting_ = <<>>
        /\ mock_total_charge[103] = RInt(2)
        /\ mock_total_charge[104] = RInt(1)

\* C7 witness: the scenario has been run to its end
C7_Witness == ScenarioDone /\ cur_time = 5

\* the agents in the order of a whole callback: the vehicles as they stand in
\* evtols_, then the station (0)
CallbackOrder ==
    [i \in 1..(Len(evtols_) + 1) |-> IF i <= Len(evtols_) THEN i ELSE 0]

\* C8: within a tick the callback updates every vehicle once, in the order of
\* evtols_, the same in every tick, and then the station once: the updates made
\* so far are always a prefix of that order, the station's update is made when
\* all vehicles have had theirs, and a callback that has returned made them all.
C8_VehiclesThenStation ==
    update_count > 0 =>
        /\ Len(tick_log) <= Len(CallbackOrder)
        /\ tick_log = SubSeq(CallbackOrder, 1, Len(tick_log))
        /\ pc = "vehicles" => Len(tick_log) = agent_idx - 1
        /\ pc = "station" => Len(tick_log) = Len(evtols_)
        /\ TickComplete => tick_log = CallbackOrder

\* C8 witness: the second callback has updated the first vehicle and not yet
\* the others
C8_Witness ==
    /\ update_count = 2
    /\ pc = "vehicles"
    /\ tick_log = <<1>>
    /\ evtols_[1].total_flight_time_ = cur_time
    /\ evtols_[2].total_flight_time_ = prev_time

\* C9: every callback gets cur - prev equal to the tick size; the first one gets
\* prev = 0 and each later one gets the cur of the one before as its prev, so
\* the simulated time grows by one tick size per callback, whatever the clock
\* readings are.
C9_CallbackTimes ==
    /\ [](update_count > 0 =>
            /\ cur_time - prev_time = timestep_size_milliseconds_
            /\ cur_time = update_count * timestep_size_milliseconds_)
    /\ [][update_count' # update_count =>
            /\ update_count' = update_count + 1
            /\ prev_time' = (IF update_count = 0 THEN 0 ELSE cur_time)
            /\ cur_time' > cur_time]_vars

\* C9 witness: the clock has jumped past several update times and the third
\* callback is fired late
C9_Witness ==
    /\ update_count = 3
    /\ pc = "vehicles"
    /\ prev_time = 2 * timestep_size_milliseconds_
    /\ current_time >= next_update_time + 2 * update_interval

\* D * 60000 / T, rounded down and rounded up
CallbacksFloor ==
    (total_simulation_time_minutes_ * 60000) \div timestep_size_milliseconds_

CallbacksCeil ==
    (total_simulation_time_minutes_ * 60000 + timestep_size_milliseconds_ - 1)
        \div timestep_size_milliseconds_

\* C10: when start() has returned it has fired floor(D * 60000 / T) or
\* ceil(D * 60000 / T) callbacks, for every compression ratio and whatever way
\* the wall clock advanced between the polls.
C10_CallbackCount ==
    pc = "done" => update_count \in {CallbacksFloor, CallbacksCeil}

----------------------------------------------------------------------------
\* the configured duration in simulated milliseconds
TotalSimulationMilliseconds == (total_simulation_time_minutes_ * 60) * 1000

\* C11: when start() has returned, the simulated time of the last callback
\* (its cur argument) is at least the total configured duration.
C11_RunsForTotalDuration ==
    pc = "done" => cur_time >= TotalSimulationMilliseconds

----------------------------------------------------------------------------
(* The constructors that validate their arguments, and a client that calls *)
(* one of them with valid or invalid arguments, as each statement of        *)
(* test_SimulationEventTimer and test_eVTOLConfiguration does.              *)

\* Mutant: the constructor without the check of the compression ratio
SimulationEventTimer_NoRatioCheck(timestep, event, minutes, ratio) ==
    IF timestep = 0 THEN Throw("invalid_argument")
    ELSE IF ~event THEN Throw("invalid_argument")
    ELSE Return([timestep_size_milliseconds_ |-> timestep,
                 timestep_event_ |-> event,
                 total_simulation_time_minutes_ |-> minutes,
                 simulation_to_real_time_ |-> ratio])

\* SimulationEventTimer::SimulationEventTimer; event is TRUE for a
\* std::function that holds a callable, FALSE for an empty one
SimulationEventTimer(timestep, event, minutes, ratio) ==
    IF timestep = 0 THEN Throw("invalid_argument")
    ELSE IF ~event THEN Throw("invalid_argument")
    ELSE IF ratio = 0 THEN Throw("invalid_argument")
    ELSE Return([timestep_size_milliseconds_ |-> timestep,
                 timestep_event_ |-> event,
                 total_simulation_time_minutes_ |-> minutes,
                 simulation_to_real_time_ |-> ratio])

\* size_t arguments the client passes: the 0, 1 and 1000 of the test
SizeArguments == {0, 1, 1000}

CtorInit ==
    /\ pc = "ctor"
    /\ evtols_ = <<>>
    /\ max_number_charging_devices_ = 0
    /\ devices_charging_ = <<>>
    /\ devices_waiting_ = <<>>
    /\ mock_total_charge = [d \in MockDevices |-> RInt(0)]
    /\ timestep_size_milliseconds_ = 0
    /\ total_simulation_time_minutes_ = 0
    /\ simulation_to_real_time_ = 0
    /\ current_time = 0
    /\ next_update_time = 0
    /\ stop_time = 0
    /\ update_interval = 0
    /\ update_count = 0
    /\ prev_time = 0
    /\ cur_time = 0
    /\ agent_idx = 0
    /\ add_count = 0
    /\ add_order = SetToZero(Devices)
    /\ tick_log = <<>>
    /\ test_log = <<>>
    /\ call = NoCall
    /\ outcome = NoOutcome
    /\ has_already_run_ = FALSE
    /\ prototypes_ = <<>>
    /\ admission = [v \in Vehicles |-> NoAdmission]

ctorFrame == <<pc, has_already_run_, prototypes_, admission, evtols_, stationVars, mock_total_charge, timerConfigVars,
               timerLocalVars, prev_time, cur_time, agent_idx, add_count,
               add_order, tick_log, test_log>>

\* SimulationEventTimer t(timestep, event, minutes, ratio)
ConstructTimer ==
    /\ pc = "ctor" /\ call = NoCall
    /\ \E timestep \in SizeArguments, event \in BOOLEAN,
          minutes \in SizeArguments, ratio \in SizeArguments :
          /\ call' = [op |-> "SimulationEventTimer", timestep |-> timestep,
                      event |-> event, minutes |-> minutes, ratio |-> ratio]
          /\ outcome' = SimulationEventTimer(timestep, event, minutes, ratio)
    /\ UNCHANGED ctorFrame

\* the checks of the 7-argument constructor, in the order of the code;
\* passenger_count is a size_t, the others are doubles
ConfigurationRejected(name, speed, capacity, charge_time, energy_use, passengers, prob_fault) ==
    \/ name = ""
    \/ RLeq(speed, RInt(0))
    \/ RLeq(capacity, RInt(0))
    \/ RLeq(charge_time, RInt(0))
    \/ RLeq(energy_use, RInt(0))
    \/ passengers <= 0
    \/ RLess(prob_fault, RInt(0)) \/ RLess(RInt(1), prob_fault)

\* eVTOLConfiguration::eVTOLConfiguration with 7 arguments
ConstructeVTOLConfiguration(name, speed, capacity, charge_time, energy_use, passengers, prob_fault) ==
    IF ConfigurationRejected(name, speed, capacity, charge_time, energy_use, passengers, prob_fault)
    THEN Throw("invalid_argument")
    ELSE Return(eVTOLConfiguration(name, speed, capacity, charge_time, energy_use, passengers, prob_fault))

\* eVTOLConfiguration::eVTOLConfiguration without arguments
DefaulteVTOLConfiguration ==
    eVTOLConfiguration("unknonw", RInt(1), RInt(1), RInt(1), RInt(1), 1, RInt(1))

\* the arguments the client passes
NameArguments == {"", "Alpha"}
DoubleArguments == {RInt(-1), RInt(0), RInt(1), NaN}
PassengerArguments == {0, 4}
ProbabilityArguments == {Rat(-1, 4), RInt(0), Rat(1, 4), RInt(1), RInt(2), NaN}

\* eVTOLConfiguration vtol_config(name, speed, ...)
ConstructConfiguration ==
    /\ pc = "ctor" /\ call = NoCall
    /\ \E name \in NameArguments, speed \in DoubleArguments,
          capacity \in DoubleArguments, charge_time \in DoubleArguments,
          energy_use \in DoubleArguments, passengers \in PassengerArguments,
          prob_fault \in ProbabilityArguments :
          /\ call' = [op |-> "eVTOLConfiguration", name |-> name, speed |-> speed,
                      capacity |-> capacity, charge_time |-> charge_time,
                      energy_use |-> energy_use, passengers |-> passengers,
                      prob_fault |-> prob_fault]
          /\ outcome' = ConstructeVTOLConfiguration(name, speed, capacity, charge_time,
                                                    energy_use, passengers, prob_fault)
    /\ UNCHANGED ctorFrame

\* eVTOLConfiguration vtol_config;
ConstructDefaultConfiguration ==
    /\ pc = "ctor" /\ call = NoCall
    /\ call' = [op |-> "eVTOLConfiguration()"]
    /\ outcome' = Return(DefaulteVTOLConfiguration)
    /\ UNCHANGED ctorFrame

CtorNext ==
    \/ ConstructTimer
    \/ ConstructConfiguration
    \/ ConstructDefaultConfiguration

CtorSpec == CtorInit /\ [][CtorNext]_vars

\* C12: constructing a SimulationEventTimer throws invalid_argument and
\* yields no timer exactly when the tick size is 0, the compression ratio is
\* 0 or the callback is empty; otherwise it yields a timer that holds the
\* arguments, whatever the total duration.
C12_TimerValidation ==
    call.op = "SimulationEventTimer" =>
        IF call.timestep = 0 \/ call.ratio = 0 \/ ~call.event
        THEN outcome.thrown = "invalid_argument" /\ outcome.object = <<>>
        ELSE /\ outcome.thrown = "none"
             /\ Len(outcome.object) = 1
             /\ outcome.object[1].timestep_size_milliseconds_ = call.timestep
             /\ outcome.object[1].total_simulation_time_minutes_ = call.minutes
             /\ outcome.object[1].simulation_to_real_time_ = call.ratio

\* a valid timer of total duration 0 has been constructed
C12_Witness ==
    /\ call.op = "SimulationEventTimer"
    /\ call.minutes = 0
    /\ outcome.thrown = "none"
    /\ Len(outcome.object) = 1

----------------------------------------------------------------------------
\* the constraints on a configuration's values
Positive(x) == RLess(RInt(0), x)
IsProbability(x) == RLeq(RInt(0), x) /\ RLeq(x, RInt(1))
SatisfiesConstraints(name, speed, capacity, charge_time, energy_use, passengers, prob_fault) ==
    /\ name # ""
    /\ Positive(speed) /\ Positive(capacity)
    /\ Positive(charge_time) /\ Positive(energy_use)
    /\ passengers > 0
    /\ IsProbability(prob_fault)

ConfigurationValid(c) ==
    SatisfiesConstraints(c.company_name_, c.cruise_speed_, c.battery_capacity_,
                         c.time_to_charge_, c.energy_use_at_cruise_,
                         c.passenger_count_, c.prob_fault_per_hour_)

\* C15: every eVTOLConfiguration a caller obtains satisfies all constraints
\* (non-empty name; speed, capacity, time to charge and energy use > 0;
\* passenger count > 0; fault probability in [0, 1]), and the 7-argument
\* constructor throws invalid_argument exactly when its arguments violate
\* at least one of them.
C15_ConfigurationValidation ==
    /\ call.op \in {"eVTOLConfiguration", "eVTOLConfiguration()"} =>
          \A i \in DOMAIN outcome.object : ConfigurationValid(outcome.object[i])
    /\ call.op = "eVTOLConfiguration" =>
          IF SatisfiesConstraints(call.name, call.speed, call.capacity, call.charge_time,
                                  call.energy_use, call.passengers, call.prob_fault)
          THEN outcome.thrown = "none" /\ Len(outcome.object) = 1
          ELSE outcome.thrown = "invalid_argument" /\ outcome.object = <<>>

----------------------------------------------------------------------------
\* everything a run leaves behind: the vehicles, the station and its lists,
\* the timer's counters and the histories
runResults == <<pc, has_already_run_, prototypes_, admission, evtols_, stationVars, mock_total_charge,
                timerConfigVars, timerLocalVars, prev_time, cur_time, agent_idx,
                add_count, add_order, tick_log, test_log>>

\* C13: once run() has returned or aborted, a further call of run() on the
\* instance throws logic_error and changes nothing: no station or vehicle is
\* created, no tick fires, the results of the first run stay as they are.
C13_SecondRunRejected ==
    [][(pc = "done" \/ pc = "aborted") =>
          (call' = [op |-> "run"] /\ outcome' = Throw("logic_error")
                                  /\ UNCHANGED runResults)]_vars

\* run() was called again after a run with ticks and admissions
C13_Witness ==
    /\ pc = "done"
    /\ outcome.thrown = "logic_error"
    /\ update_count > 1
    /\ add_count > 0

----------------------------------------------------------------------------
(* A client of eVTOLFactory and eVTOL, as test_eVTOLFactory and test_eVTOL: *)
(* it adds prototypes to a factory, creates vehicles from it, and calls     *)
(* begin, timestepUpdate and addCharge on them in any order.  The vehicles  *)
(* of the factory point at a station of one bay; a vehicle the client       *)
(* constructs itself has no station.  cur_time is the time the client       *)
(* passes to timestepUpdate.                                                *)

MaxClientVehicles == 1     \* vehicles the client creates
MaxClientTicks == 3        \* successful timestepUpdate calls the client makes
ClientTimestep == 9000     \* cur_time - prev_time of those calls, in ms
ChargeAmounts == {Rat(1, 2), RInt(3)}   \* arguments of addCharge, in kWh

\* create_eVTOL on a factory without prototypes constructs
\* uniform_int_distribution<int>(0, -1) and reads prototypes_[index] of an
\* empty vector: undefined behaviour.  The process is terminated (an
\* assertion of the library, a segmentation fault), or the copy constructor
\* reads whatever the memory holds and a vehicle with that content is
\* returned.
GarbageVehicles ==
    {[NeweVTOL(alpha_config, has_station) EXCEPT !.state_ = state]
        : has_station \in BOOLEAN, state \in {"UNKNOWN", "FLYING", "GARBAGE"}}
UndefinedOutcomes == {Throw("terminated")} \cup {Return(ev) : ev \in GarbageVehicles}

ClientInit ==
    /\ pc = "client"
    /\ evtols_ = <<>>
    /\ max_number_charging_devices_ = 1
    /\ devices_charging_ = <<>>
    /\ devices_waiting_ = <<>>
    /\ mock_total_charge = [d \in MockDevices |-> RInt(0)]
    /\ timestep_size_milliseconds_ = 0
    /\ total_simulation_time_minutes_ = 0
    /\ simulation_to_real_time_ = 0
    /\ current_time = 0
    /\ next_update_time = 0
    /\ stop_time = 0
    /\ update_interval = 0
    /\ update_count = 0
    /\ prev_time = 0
    /\ cur_time = 0
    /\ agent_idx = 0
    /\ add_count = 0
    /\ add_order = SetToZero(Devices)
    /\ tick_log = <<>>
    /\ test_log = <<>>
    /\ call = NoCall
    /\ outcome = NoOutcome
    /\ has_already_run_ = FALSE
    /\ prototypes_ = <<>>
    /\ admission = [v \in Vehicles |-> NoAdmission]

clientFrame == <<max_number_charging_devices_, mock_total_charge, timerConfigVars,
                 timerLocalVars, agent_idx, tick_log, test_log, has_already_run_>>

\* factory.addPrototype(eVTOL(config, &cs))
ClientAddPrototype ==
    /\ pc = "client"
    /\ Len(prototypes_) < Len(Prototypes)
    /\ prototypes_' = addPrototype(prototypes_,
                                   NeweVTOL(Prototypes[Len(prototypes_) + 1], TRUE))
    /\ call' = [op |-> "addPrototype"]
    /\ outcome' = NoOutcome
    /\ UNCHANGED <<pc, evtols_, devices_charging_, devices_waiting_, prev_time,
                   cur_time, add_count, add_order>>
    /\ UNCHANGED clientFrame
    /\ UNCHANGED <<admission>>

\* factory.create_eVTOL(); the client keeps the vehicle returned
ClientCreate ==
    /\ pc = "client"
    /\ Len(evtols_) < MaxClientVehicles
    /\ call' = [op |-> "create_eVTOL", prototypes |-> Len(prototypes_)]
    /\ IF Len(prototypes_) = 0
       THEN /\ outcome' \in UndefinedOutcomes
            /\ pc' = "undefined"
            /\ UNCHANGED evtols_
       ELSE \E index \in DOMAIN prototypes_ :
               /\ outcome' = Return(create_eVTOL(index))
               /\ evtols_' = Append(evtols_, create_eVTOL(index))
               /\ UNCHANGED pc
    /\ UNCHANGED <<prototypes_, devices_charging_, devices_waiting_, prev_time,
                   cur_time, add_count, add_order>>
    /\ UNCHANGED clientFrame
    /\ UNCHANGED <<admission>>

\* eVTOL vtol(vtol_config, nullptr): a vehicle without a charging station
ClientNewVehicle ==
    /\ pc = "client"
    /\ Len(evtols_) < MaxClientVehicles
    /\ evtols_' = Append(evtols_, NeweVTOL(alpha_config, FALSE))
    /\ call' = [op |-> "eVTOL"]
    /\ outcome' = NoOutcome
    /\ UNCHANGED <<pc, prototypes_, devices_charging_, devices_waiting_, prev_time,
                   cur_time, add_count, add_order, admission>>
    /\ UNCHANGED clientFrame

\* evtol->begin(), once per vehicle at most
ClientBegin ==
    /\ pc = "client"
    /\ \E v \in DOMAIN evtols_ :
          /\ evtols_[v].state_ = "UNKNOWN"
          /\ evtols_' = [evtols_ EXCEPT ![v] = Begin(evtols_[v])]
          /\ call' = [op |-> "begin", v |-> v]
    /\ outcome' = NoOutcome
    /\ UNCHANGED <<pc, prototypes_, devices_charging_, devices_waiting_, prev_time,
                   cur_time, add_count, add_order>>
    /\ UNCHANGED clientFrame
    /\ UNCHANGED <<admission>>

\* evtol->timestepUpdate(cur_time, cur_time + ClientTimestep)
ClientTimestepUpdate ==
    /\ pc = "client"
    /\ cur_time < MaxClientTicks * ClientTimestep
    /\ \E v \in DOMAIN evtols_ :
          LET ev == evtols_[v]
          IN  /\ call' = [op |-> "timestepUpdate", v |-> v]
              /\ IF Throws(ev)
                 THEN /\ outcome' = Throw("logic_error")
                      /\ UNCHANGED <<evtols_, devices_charging_, devices_waiting_,
                                     add_count, add_order, admission, prev_time,
                                     cur_time>>
                 ELSE \E fault \in didFaultOccur(ev, ClientTimestep) :
                        LET after == timestepUpdate(ev, cur_time,
                                                    cur_time + ClientTimestep, fault)
                            st == addDevice(devices_charging_, devices_waiting_,
                                            max_number_charging_devices_, v)
                        IN  /\ outcome' = NoOutcome
                            /\ evtols_' = [evtols_ EXCEPT ![v] = after]
                            /\ IF RequestsAdmission(ev, after)
                               THEN /\ devices_charging_' = st.charging
                                    /\ devices_waiting_' = st.waiting
                                    /\ add_count' = add_count + 1
                                    /\ add_order' = [add_order EXCEPT ![v] = add_count + 1]
                                    /\ admission' = [admission EXCEPT ![v] =
                                           Admitted(after, devices_charging_,
                                                    max_number_charging_devices_, 0)]
                               ELSE UNCHANGED <<devices_charging_, devices_waiting_,
                                                add_count, add_order, admission>>
                            /\ prev_time' = cur_time
                            /\ cur_time' = cur_time + ClientTimestep
    /\ UNCHANGED <<pc, prototypes_>>
    /\ UNCHANGED clientFrame

\* evtol->addCharge(amount); from is the state the vehicle is in at the call
ClientAddCharge ==
    /\ pc = "client"
    /\ \E v \in DOMAIN evtols_, amount \in ChargeAmounts :
          /\ evtols_' = [evtols_ EXCEPT ![v] = addCharge(evtols_[v], amount)]
          /\ call' = [op |-> "addCharge", v |-> v, amount |-> amount,
                      from |-> evtols_[v].state_]
    /\ outcome' = NoOutcome
    /\ UNCHANGED <<pc, prototypes_, devices_charging_, devices_waiting_, prev_time,
                   cur_time, add_count, add_order>>
    /\ UNCHANGED clientFrame
    /\ UNCHANGED <<admission>>

ClientNext ==
    \/ ClientAddPrototype
    \/ ClientCreate
    \/ ClientNewVehicle
    \/ ClientBegin
    \/ ClientTimestepUpdate
    \/ ClientAddCharge

ClientSpec == ClientInit /\ [][ClientNext]_vars

----------------------------------------------------------------------------
\* C14: timestepUpdate on a vehicle in state UNKNOWN throws logic_error and
\* changes nothing: the vehicle (state, charge, the three time counters, the
\* fault count) is as before and the station has received no addDevice.
C14_UnknownUpdateThrows ==
    [][(call'.op = "timestepUpdate" /\ evtols_[call'.v].state_ = "UNKNOWN") =>
          (outcome' = Throw("logic_error")
              /\ UNCHANGED <<evtols_, stationVars, add_count, add_order>>)]_vars

\* an update of a vehicle that was never begun has thrown
C14_Witness ==
    /\ call.op = "timestepUpdate"
    /\ outcome.thrown = "logic_error"
    /\ evtols_[call.v].state_ = "UNKNOWN"

----------------------------------------------------------------------------
\* C16: addCharge(amount) sets the charge to min(charge + amount, capacity)
\* and the state to FLYING if the new charge equals the capacity and to
\* CHARGING otherwise, whatever the state was; the time counters, the fault
\* count and everything else stay as they are.
C16_AddChargeEffect ==
    [][call'.op = "addCharge" =>
          LET ev == evtols_[call'.v]
              after == evtols_'[call'.v]
              capacity == ev.configuration_.battery_capacity_
              sum == RAdd(ev.current_charge_, call'.amount)
              charge == IF RLess(capacity, sum) THEN capacity ELSE sum
          IN  /\ after = [ev EXCEPT !.current_charge_ = charge,
                                    !.state_ = IF charge = capacity
                                               THEN "FLYING" ELSE "CHARGING"]
              /\ \A w \in DOMAIN evtols_ : w # call'.v => evtols_'[w] = evtols_[w]
              /\ UNCHANGED <<stationVars, add_count, add_order, prototypes_>>]_vars

\* addCharge on a vehicle in state WAITING left it CHARGING below capacity
C16_Witness ==
    /\ call.op = "addCharge"
    /\ call.from = "WAITING"
    /\ evtols_[call.v].state_ = "CHARGING"
    /\ RLess(evtols_[call.v].current_charge_,
             evtols_[call.v].configuration_.battery_capacity_)

----------------------------------------------------------------------------
\* the exceptions by which the program reports an error to its caller
ReportedErrors == {"invalid_argument", "logic_error"}

\* a vehicle as its constructor leaves it, for some configuration
FreshVehicle(ev) ==
    /\ ev.state_ = "UNKNOWN"
    /\ ev.current_charge_ = ev.configuration_.battery_capacity_
    /\ ev.total_flight_time_ = 0
    /\ ev.total_charge_time_ = 0
    /\ ev.total_wait_time_ = 0
    /\ ev.number_of_faults_ = 0

\* C17: create_eVTOL on a factory without prototypes reports an error and
\* returns no vehicle; on a factory with prototypes it returns a vehicle in
\* state UNKNOWN with full charge and zero counters.
C17_CreateVehicle ==
    call.op = "create_eVTOL" =>
        IF call.prototypes = 0
        THEN outcome.thrown \in ReportedErrors /\ outcome.object = <<>>
        ELSE /\ outcome.thrown = "none"
             /\ Len(outcome.object) = 1
             /\ FreshVehicle(outcome.object[1])

----------------------------------------------------------------------------
\* a vehicle that has asked the station for admission
Requested(v) == v \in DOMAIN evtols_ /\ add_order[v] > 0

\* the vehicle differs from its former self in the wait time at most
OnlyWaited(before, after) == after = [before EXCEPT !.total_wait_time_ = after.total_wait_time_]

\* C18: with a bay capacity of 0 nothing fails, the charging list stays
\* empty, and a vehicle that has requested admission is in the waiting queue
\* in state WAITING from then on: it receives no charge and only its wait
\* time grows.
C18_NoBaysWaitForever ==
    /\ [](max_number_charging_devices_ = 0 =>
            /\ pc # "aborted"
            /\ outcome.thrown = "none" \/ pc = "done"
            /\ devices_charging_ = <<>>
            /\ \A v \in Vehicles : Requested(v) =>
                  /\ evtols_[v].state_ = "WAITING"
                  /\ v \in Range(devices_waiting_)
                  /\ evtols_[v].total_charge_time_ = 0)
    /\ [][max_number_charging_devices_ = 0 =>
            \A v \in Vehicles : Requested(v) => OnlyWaited(evtols_[v], evtols_'[v])]_vars

\* no bays, every vehicle has requested admission and has waited since
C18_Witness ==
    /\ max_number_charging_devices_ = 0
    /\ Len(devices_waiting_) = NumEvtols
    /\ \A v \in Vehicles : Requested(v) /\ evtols_[v].total_wait_time_ > 0

----------------------------------------------------------------------------
\* The changes of state_ the claim allows, with the step that makes them:
\* the tick update of the vehicle (pc = "vehicles") or addCharge in the
\* update of the station (pc = "station").
AllowedTransitions ==
    {<<"FLYING", "WAITING", "vehicles">>,
     <<"WAITING", "CHARGING", "station">>,
     <<"WAITING", "FLYING", "station">>,
     <<"CHARGING", "FLYING", "station">>,
     <<"CHARGING", "FLYING", "vehicles">>}

\* C19: during a run a vehicle enters evtols_ begun, in state FLYING, and
\* every later change of its state is FLYING -> WAITING in its tick update,
\* WAITING -> CHARGING or WAITING -> FLYING by the station's addCharge, or
\* CHARGING -> FLYING by addCharge or its tick update: never FLYING ->
\* CHARGING, never CHARGING -> WAITING, never back to UNKNOWN.
C19_StateTransitions ==
    [][\A v \in DOMAIN evtols_' :
          IF v \in DOMAIN evtols_
          THEN \/ evtols_'[v].state_ = evtols_[v].state_
               \/ <<evtols_[v].state_, evtols_'[v].state_, pc>> \in AllowedTransitions
          ELSE pc = "create" /\ evtols_'[v].state_ = "FLYING"]_vars

\* a vehicle is flying again after it has waited and has been charged
C19_Witness ==
    \E v \in DOMAIN evtols_ :
        /\ evtols_[v].state_ = "FLYING"
        /\ evtols_[v].total_wait_time_ > 0
        /\ evtols_[v].total_charge_time_ > 0

----------------------------------------------------------------------------
\* the device of the addDevice call made in the step
AddedDevice == CHOOSE d \in Devices : add_order'[d] = add_count'

\* the vehicle asked for admission in the current tick and found a free bay
AdmittedDirectlyNow(v) == admission[v].direct /\ admission[v].tick = update_count

\* C20: addDevice puts the device in exactly one list and changes nothing
\* else: at the end of the charging list, the waiting queue unchanged, if the
\* charging list is shorter than the bay capacity, and at the front of the
\* waiting queue, the charging list unchanged, otherwise; the capacity and
\* the other devices stay as they are.  A vehicle admitted directly to a bay
\* is charged in the station update of the same tick, and its wait time
\* stays what it was when it asked for admission.
C20_AddDeviceFrame ==
    /\ [][add_count' # add_count =>
            /\ add_count' = add_count + 1
            /\ IF Len(devices_charging_) < max_number_charging_devices_
               THEN /\ devices_charging_' = Append(devices_charging_, AddedDevice)
                    /\ devices_waiting_' = devices_waiting_
               ELSE /\ devices_waiting_' = <<AddedDevice>> \o devices_waiting_
                    /\ devices_charging_' = devices_charging_
            /\ \A w \in DOMAIN evtols_ : w # AddedDevice => evtols_'[w] = evtols_[w]
            /\ UNCHANGED <<max_number_charging_devices_, mock_total_charge>>]_vars
    /\ [][pc = "station" =>
            \A v \in DOMAIN evtols_ : AdmittedDirectlyNow(v) =>
                /\ evtols_[v].state_ = "WAITING"
                /\ evtols_'[v].state_ \in {"CHARGING", "FLYING"}
                /\ RLess(evtols_[v].current_charge_, evtols_'[v].current_charge_)]_vars
    /\ [](\A v \in DOMAIN evtols_ :
            admission[v].direct => evtols_[v].total_wait_time_ = admission[v].wait)

\* the station update of a tick is over, and a vehicle that found a free
\* bay in this tick is charging, while another one waits in the queue
C20_Witness ==
    /\ TickComplete
    /\ \E v \in DOMAIN evtols_ :
          AdmittedDirectlyNow(v) /\ evtols_[v].state_ = "CHARGING"
    /\ devices_waiting_ # <<>>

----------------------------------------------------------------------------
\* C21: when the station's timestepUpdate of a tick is over, no device in
\* the charging list has a full charge, however many devices became full in
\* that tick.
C21_NoFullDeviceCharging ==
    TickComplete =>
        \A i \in DOMAIN devices_charging_ :
            ~DevHasFullCharge([ev |-> evtols_, mock |-> mock_total_charge],
                              devices_charging_[i])

\* two vehicles became full in the station update just done and are in
\* neither list
C21_Witness ==
    /\ TickComplete
    /\ \E v, w \in DOMAIN evtols_ :
          /\ v # w
          /\ Requested(v) /\ Requested(w)
          /\ hasFullCharge(evtols_[v]) /\ hasFullCharge(evtols_[w])
          /\ {v, w} \cap (Range(devices_charging_) \cup Range(devices_waiting_)) = {}

----------------------------------------------------------------------------
\* C22: the tick update of a vehicle in state WAITING adds the elapsed time
\* to its wait time and changes nothing else, neither in the vehicle nor in
\* the station; a vehicle leaves WAITING only in an addCharge call on it, so
\* a vehicle without a station stays WAITING through every tick update.
C22_WaitingFrame ==
    [][\A v \in DOMAIN evtols_ : evtols_[v].state_ = "WAITING" =>
          /\ (call'.op = "timestepUpdate" /\ call'.v = v) =>
                /\ outcome' = NoOutcome
                /\ evtols_' = [evtols_ EXCEPT ![v].total_wait_time_ =
                                                 @ + (cur_time' - prev_time')]
                /\ cur_time' - prev_time' = ClientTimestep
                /\ UNCHANGED <<stationVars, add_count, add_order, prototypes_>>
          /\ evtols_'[v].state_ # "WAITING" =>
                (call'.op = "addCharge" /\ call'.v = v)]_vars

\* a vehicle without a station has waited through a tick update
C22_Witness ==
    \E v \in DOMAIN evtols_ :
        /\ ~evtols_[v].charging_station_
        /\ evtols_[v].state_ = "WAITING"
        /\ evtols_[v].total_wait_time_ > 0
        /\ call.op = "timestepUpdate"

----------------------------------------------------------------------------
\* the charge one station update delivers to the vehicle
ChargeIncrement(ev) == RMul(chargeRate(ev), RInt(cur_time - prev_time))

\* C23: a vehicle the station update moves from the waiting queue to the
\* charging list is not charged in that update; the next station update
\* gives it its first charge, and if that increment fills the battery the
\* vehicle goes from WAITING to FLYING and leaves the charging list in that
\* update, never having been CHARGING.
C23_FirstChargeNextTick ==
    [][pc = "station" =>
          \A v \in DOMAIN evtols_ :
              /\ (v \in Range(devices_waiting_) /\ v \in Range(devices_charging_')) =>
                    evtols_'[v] = evtols_[v]
              /\ (v \in Range(devices_charging_) /\ evtols_[v].state_ = "WAITING"
                     /\ ~admission[v].direct) =>
                    LET ev == evtols_[v]
                        capacity == ev.configuration_.battery_capacity_
                        sum == RAdd(ev.current_charge_, ChargeIncrement(ev))
                    IN  IF RLeq(capacity, sum)
                        THEN /\ evtols_'[v].state_ = "FLYING"
                             /\ evtols_'[v].current_charge_ = capacity
                             /\ v \notin Range(devices_charging_')
                        ELSE /\ evtols_'[v].state_ = "CHARGING"
                             /\ evtols_'[v].current_charge_ = sum
                             /\ v \in Range(devices_charging_')]_vars

\* a vehicle that came from the waiting queue is full and flying after the
\* station update, without a tick spent in state CHARGING
C23_Witness ==
    /\ TickComplete
    /\ \E v \in DOMAIN evtols_ :
          /\ Requested(v) /\ ~admission[v].direct
          /\ evtols_[v].state_ = "FLYING"
          /\ hasFullCharge(evtols_[v])
          /\ evtols_[v].total_wait_time_ > 0
          /\ evtols_[v].total_charge_time_ = 0

----------------------------------------------------------------------------
\* the time credited to the vehicle's three counters
CreditedTime(ev) == ev.total_flight_time_ + ev.total_wait_time_ + ev.total_charge_time_

\* C24: after every tick the flight, wait and charge times of every vehicle
\* add up to the simulated time elapsed, the number of ticks fired times the
\* tick size.
C24_TimeCountersSum ==
    TickComplete =>
        \A v \in DOMAIN evtols_ :
            CreditedTime(evtols_[v]) = update_count * timestep_size_milliseconds_

\* after several ticks a vehicle has time in each of the three counters
C24_Witness ==
    /\ TickComplete
    /\ update_count > 2
    /\ \E v \in DOMAIN evtols_ :
          /\ evtols_[v].total_flight_time_ > 0
          /\ evtols_[v].total_wait_time_ > 0
          /\ evtols_[v].total_charge_time_ > 0

----------------------------------------------------------------------------
\* C25: whenever a device is in the waiting queue the charging list holds
\* as many devices as there are bays, at the tick boundaries and after every
\* addDevice call; and a device that arrives while another one waits does
\* not enter the charging list.
C25_NoIdleBayWhileWaiting ==
    /\ [](devices_waiting_ # <<>> =>
             Len(devices_charging_) = max_number_charging_devices_)
    /\ [][(add_count' # add_count /\ devices_waiting_ # <<>>) =>
             (devices_charging_' = devices_charging_
                 /\ Len(devices_waiting_') = Len(devices_waiting_) + 1)]_vars

\* a bay became free in the station update just done and went to a device
\* of the queue, while another device still waits
C25_Witness ==
    /\ TickComplete
    /\ max_number_charging_devices_ > 0
    /\ devices_waiting_ # <<>>
    /\ \E v \in Range(devices_charging_) : ~admission[v].direct
    /\ \E v \in DOMAIN evtols_ : Requested(v) /\ evtols_[v].state_ = "FLYING"


\* ---------------------------------------------------------------------------
\* Progress of a vehicle through the station
\* ---------------------------------------------------------------------------

\* number of station updates that bring the vehicle to a full charge
TicksToFull(ev, dt) ==
    LET q == RDiv(RSub(ev.configuration_.battery_capacity_, ev.current_charge_),
                  RMul(chargeRate(ev), RInt(dt)))
    IN  IF q.n <= 0 THEN 1 ELSE (q.n + q.d - 1) \div q.d

RECURSIVE TicksToFullSum(_, _, _)
TicksToFullSum(evs, list, dt) ==
    IF list = <<>> THEN 0
    ELSE TicksToFull(evs[Head(list)], dt) + TicksToFullSum(evs, Tail(list), dt)

\* place of a waiting vehicle counted from the back of the queue
PlaceFromBack(waiting, v) ==
    Len(waiting) + 1 - (CHOOSE i \in DOMAIN waiting : waiting[i] = v)

\* what is left before the vehicle is full again: charging or waiting, then
\* the place in the queue, then the station updates still to come
Rank(evs, charging, waiting, dt, v) ==
    IF v \in Range(charging)
    THEN <<0, 0, TicksToFull(evs[v], dt)>>
    ELSE <<1, PlaceFromBack(waiting, v), TicksToFullSum(evs, charging, dt)>>

RankLess(a, b) ==
    \/ a[1] < b[1]
    \/ a[1] = b[1] /\ a[2] < b[2]
    \/ a[1] = b[1] /\ a[2] = b[2] /\ a[3] < b[3]

\* the step leaves everything the rank of v is computed from as it was
SameRankInputs(v) ==
    /\ devices_charging_' = devices_charging_
    /\ \A w \in Range(devices_charging_) :
           evtols_'[w].current_charge_ = evtols_[w].current_charge_
    /\ v \notin Range(devices_charging_) =>
           /\ v \in Range(devices_waiting_')
           /\ PlaceFromBack(devices_waiting_', v) = PlaceFromBack(devices_waiting_, v)

AtStation(v) == v \in Range(devices_charging_) \cup Range(devices_waiting_)

\* C26: with at least one bay, a vehicle that enters Waiting is at the station,
\* every station update either returns it to Flying with a full battery or
\* strictly lowers its rank (charging before waiting, then place in the queue,
\* then updates left), and nothing else changes the rank; the rank cannot fall
\* forever, so while ticks go on the vehicle is charged and flies again
C26_NoStarvation ==
    /\ [](max_number_charging_devices_ >= 1 =>
            \A v \in DOMAIN evtols_ :
                evtols_[v].state_ \in {"WAITING", "CHARGING"} => AtStation(v))
    /\ [][max_number_charging_devices_ >= 1 =>
            \A v \in DOMAIN evtols_ :
                AtStation(v) =>
                    IF pc = "station"
                    THEN \/ /\ evtols_'[v].state_ = "FLYING"
                            /\ evtols_'[v].current_charge_ =
                                   evtols_'[v].configuration_.battery_capacity_
                            /\ v \notin Range(devices_charging_')
                            /\ v \notin Range(devices_waiting_')
                         \/ /\ v \in Range(devices_charging_') \cup Range(devices_waiting_')
                            /\ RankLess(
                                   Rank(evtols_', devices_charging_', devices_waiting_',
                                        timestep_size_milliseconds_, v),
                                   Rank(evtols_, devices_charging_, devices_waiting_,
                                        timestep_size_milliseconds_, v))
                    ELSE (pc' # "create" /\ <<evtols_, stationVars>>' # <<evtols_, stationVars>>) =>
                         /\ v \in Range(devices_charging_') \cup Range(devices_waiting_')
                         /\ \/ SameRankInputs(v)
                            \/ Rank(evtols_', devices_charging_', devices_waiting_',
                                    timestep_size_milliseconds_, v)
                                   = Rank(evtols_, devices_charging_, devices_waiting_,
                                          timestep_size_milliseconds_, v)]_vars

\* a vehicle that waited in the queue has been charged there and flies again
\* with a full battery while another vehicle is still waiting
C26_Witness ==
    /\ TickComplete
    /\ max_number_charging_devices_ >= 1
    /\ devices_waiting_ # <<>>
    /\ \E v \in DOMAIN evtols_ :
           /\ Requested(v)
           /\ ~admission[v].direct
           /\ ~AtStation(v)
           /\ evtols_[v].state_ = "FLYING"
           /\ evtols_[v].current_charge_ = evtols_[v].configuration_.battery_capacity_


\* C27: after a complete tick a vehicle in the waiting queue is Waiting, a
\* Charging vehicle is in the charging list, a vehicle in the charging list is
\* Charging or Waiting and not full, and a Flying vehicle is in neither list
C27_StateMatchesMembership ==
    TickComplete =>
        \A v \in DOMAIN evtols_ :
            /\ v \in Range(devices_waiting_) => evtols_[v].state_ = "WAITING"
            /\ evtols_[v].state_ = "CHARGING" => v \in Range(devices_charging_)
            /\ v \in Range(devices_charging_) =>
                   /\ evtols_[v].state_ \in {"CHARGING", "WAITING"}
                   /\ ~hasFullCharge(evtols_[v])
            /\ evtols_[v].state_ = "FLYING" => ~AtStation(v)

\* after a tick one vehicle waits in the queue, one is Charging, one has just
\* been moved to a bay and is still Waiting, and one flies
C27_Witness ==
    /\ TickComplete
    /\ \E v \in Range(devices_waiting_) : evtols_[v].state_ = "WAITING"
    /\ \E v \in Range(devices_charging_) : evtols_[v].state_ = "CHARGING"
    /\ \E v \in DOMAIN evtols_ : evtols_[v].state_ = "FLYING"


\* the charge time credited to the vehicle since its latest admission request
ChargeTimeOfVisit(v) == evtols_[v].total_charge_time_ - admission[v].charge_time

\* the vehicle's latest visit to the station is over
VisitComplete(v) ==
    /\ Requested(v)
    /\ admission[v].charges > 0
    /\ evtols_[v].state_ = "FLYING"

\* C28: when the station charges a vehicle for the first time in a visit, no
\* charge time has been credited for the visit: the tick went to flight time
\* if the vehicle took a bay directly and to wait time, like every tick since
\* the request, if it came from the queue; and once the visit is complete the
\* charge time of the visit is (number of station updates that charged the
\* vehicle - 1) times the tick size
C28_FirstChargeTickNotCredited ==
    /\ [][pc = "station" =>
            \A v \in Range(devices_charging_) :
                admission[v].charges = 0 =>
                    /\ ChargeTimeOfVisit(v) = 0
                    /\ CreditedTime(evtols_[v]) = update_count * timestep_size_milliseconds_
                    /\ evtols_[v].total_wait_time_ =
                           admission[v].wait
                           + (update_count - admission[v].tick) * timestep_size_milliseconds_
                    /\ admission[v].direct => update_count = admission[v].tick]_vars
    /\ [](\A v \in DOMAIN evtols_ :
            VisitComplete(v) =>
                ChargeTimeOfVisit(v) = (admission[v].charges - 1) * timestep_size_milliseconds_)

\* a visit that began in the queue is complete after several charges, and
\* another visit was complete after a single charge
C28_Witness ==
    /\ \E v \in DOMAIN evtols_ :
           /\ VisitComplete(v)
           /\ ~admission[v].direct
           /\ admission[v].charges > 1
           /\ ChargeTimeOfVisit(v) > 0
    /\ \E v \in DOMAIN evtols_ :
           /\ VisitComplete(v)
           /\ admission[v].charges = 1


\* C29: the fault count of a vehicle never decreases; it changes only in the
\* tick update of that vehicle made while it is Flying, and then by 1; tick
\* updates made while Waiting or Charging and the station's addCharge calls
\* leave it as it is; with a fault probability of 0 it is 0 in every state
C29_FaultCountFrame ==
    /\ [][\A v \in DOMAIN evtols_ :
            /\ v \in DOMAIN evtols_'
            /\ evtols_'[v].number_of_faults_ - evtols_[v].number_of_faults_ \in {0, 1}
            /\ evtols_'[v].number_of_faults_ # evtols_[v].number_of_faults_ =>
                   /\ pc = "vehicles"
                   /\ AgentAt(agent_idx) = v
                   /\ evtols_[v].state_ = "FLYING"]_vars
    /\ [](\A v \in DOMAIN evtols_ :
            evtols_[v].configuration_.prob_fault_per_hour_ = RInt(0) =>
                evtols_[v].number_of_faults_ = 0)

\* a vehicle has had two faults and has since been charged by the station,
\* and a vehicle with fault probability 0 has flown as long without a fault
C29_Witness ==
    /\ TickComplete
    /\ \E v \in DOMAIN evtols_ :
           /\ evtols_[v].number_of_faults_ >= 2
           /\ evtols_[v].state_ = "CHARGING"
           /\ evtols_[v].total_wait_time_ > 0
    /\ \E v \in DOMAIN evtols_ :
           /\ evtols_[v].configuration_.prob_fault_per_hour_ = RInt(0)
           /\ evtols_[v].total_flight_time_ > 0
           /\ evtols_[v].number_of_faults_ = 0


\* C30: a vehicle whose tick update runs while it is Charging has less charge
\* than its battery holds and is not Flying after the update; a vehicle that
\* becomes Flying again does so in the station update, by the addCharge call
\* that fills its battery
C30_ReturnToFlyingByStation ==
    /\ [][\A v \in DOMAIN evtols_ :
            (pc = "vehicles" /\ AgentAt(agent_idx) = v /\ evtols_[v].state_ = "CHARGING") =>
                /\ RLess(evtols_[v].current_charge_,
                         evtols_[v].configuration_.battery_capacity_)
                /\ evtols_'[v].state_ = "CHARGING"]_vars
    /\ [][\A v \in DOMAIN evtols_ :
            (v \in DOMAIN evtols_' /\ evtols_[v].state_ # "FLYING"
                                   /\ evtols_'[v].state_ = "FLYING") =>
                /\ pc = "station"
                /\ v \in Range(devices_charging_)
                /\ RLess(evtols_[v].current_charge_, evtols_'[v].current_charge_)
                /\ hasFullCharge(evtols_'[v])]_vars

\* a vehicle is Flying with a full battery after several ticks in Charging
C30_Witness ==
    /\ TickComplete
    /\ \E v \in DOMAIN evtols_ :
           /\ evtols_[v].state_ = "FLYING"
           /\ hasFullCharge(evtols_[v])
           /\ evtols_[v].total_charge_time_ >= 2 * timestep_size_milliseconds_

=============================================================================
